---- MODULE Spec2Model ----
(***************************************************************************)
(* A model of the "lite" SQLite convenience layer: the Database Handle     *)
(* (lite.py), the Table Manager (_tables.py), the Column Manager           *)
(* (_columns.py) and the Record Manager (_records.py), together with the   *)
(* part of the embedded engine's contract that their statements rely on.   *)
(*                                                                         *)
(* Every manager operation is an operator from a database to a record      *)
(* [res, db] (res is "True", "False" or "Raised"), because the operations  *)
(* call one another; one action per operation applies it to the state.     *)
(***************************************************************************)
EXTENDS Integers, Sequences, FiniteSets, TLC

VARIABLES db,          \* the catalog of the current database file
          last,        \* the last operation: its name and what it returned
          promotions,  \* primary_key calls that have succeeded so far
          current_db,  \* DB.current_db: the name of the file the object uses
          disk         \* the files there are, by name, and what they hold

vars == <<db, last, promotions, current_db, disk>>

----------------------------------------------------------------------------
(* Bounds of the model.                                                    *)

MaxRowid == 2     \* largest row identifier the engine may hand out
MaxPromotions == 1   \* successful primary_key calls in one behaviour

----------------------------------------------------------------------------
(* Python values.                                                          *)

R_TRUE == "True"
R_FALSE == "False"
R_RAISED == "Raised"

PyNone == "<None>"          \* None where a name is expected

NULL == [k |-> "null", n |-> 0, s |-> ""]
IntV(i) == [k |-> "int", n |-> i, s |-> ""]
RealV(i) == [k |-> "real", n |-> i, s |-> ""]
TextV(t) == [k |-> "text", n |-> 0, s |-> t]

\* Decimal numerals of the integers the model uses.
Numerals ==
  { <<"1", 1>>, <<"2", 2>>, <<"3", 3>>, <<"4", 4>>, <<"5", 5>>, <<"6", 6>>,
    <<"30", 30>>, <<"65", 65>>, <<"70", 70>> }

IsNumeric(t) == \E p \in Numerals : p[1] = t
ToInt(t) == (CHOOSE p \in Numerals : p[1] = t)[2]
ToText(i) == (CHOOSE p \in Numerals : p[2] = i)[1]

----------------------------------------------------------------------------
(* Strings that name a type: the text before the first "(", the rest, and  *)
(* whether the letters are all upper case.                                 *)

TY(base, suffix, upper) == [base |-> base, suffix |-> suffix, upper |-> upper]
T(base) == TY(base, "", TRUE)

\* str.upper()
Upper(t) == [t EXCEPT !.upper = TRUE]

\* str.split('(')[0]
SplitParen(t) == [t EXCEPT !.suffix = ""]

SeqToSet(s) == { s[i] : i \in 1..Len(s) }

GENERAL == << T("NULL"), T("INTEGER"), T("REAL"), T("TEXT"), T("BLOB") >>

AFFINITY ==
  [ INTEGER |-> << T("INTEGER"), T("TINYINT"), T("SMALLINT"), T("MEDIUMINT"),
                   T("BIGINT"), T("UNSIGNED BIG INT"), T("INT2"), T("INT8") >>,
    TEXT    |-> << TY("CHARACTER", "(20)", TRUE), TY("VARCHAR", "(255)", TRUE),
                   TY("VARYING CHARACTER", "(255)", TRUE),
                   TY("NCHAR", "(55)", TRUE),
                   TY("NATIVE CHARACTER", "(70)", TRUE),
                   TY("NVARCHAR", "(100)", TRUE), T("TEXT"), T("CLOB") >>,
    NONE    |-> << T("BLOB"), T("") >>,
    REAL    |-> << T("REAL"), T("DOUBLE"), T("DOUBLE PRECISION"), T("FLOAT") >>,
    NUMERIC |-> << TY("DECIMAL", "(10,5)", TRUE), T("BOOLEAN"), T("DATE"),
                   T("DATETIME") >> ]

AffinityKeys == << "INTEGER", "TEXT", "NONE", "REAL", "NUMERIC" >>

RECURSIVE Flatten(_)
Flatten(ss) == IF ss = << >> THEN << >> ELSE Head(ss) \o Flatten(Tail(ss))

\* every type AFFINITY lists, in the order of the table
AffinityValues == Flatten([i \in 1..Len(AffinityKeys) |-> AFFINITY[AffinityKeys[i]]])

----------------------------------------------------------------------------
(* The embedded engine.  A database is the sequence of its tables in       *)
(* catalog order; a table is its name, its column definitions, the columns *)
(* of its composite UNIQUE constraint and its rows in row-identifier       *)
(* order.  A statement ends in "ok", in "operational" (OperationalError)   *)
(* or in "integrity" (IntegrityError); a failed statement changes nothing. *)

E_OK == "ok"
E_OPERATIONAL == "operational"
E_INTEGRITY == "integrity"

Column(name, type, notnull, pk) ==
  [name |-> name, type |-> type, notnull |-> notnull, pk |-> pk]

Table(name, cols, uniq, rows) ==
  [name |-> name, cols |-> cols, uniq |-> uniq, rows |-> rows]

Row(rowid, vals) == [rowid |-> rowid, vals |-> vals]

EmptyDB == << >>

HasTable(d, name) == \E i \in 1..Len(d) : d[i].name = name
TableIdx(d, name) == CHOOSE i \in 1..Len(d) : d[i].name = name
GetTable(d, name) == d[TableIdx(d, name)]

ColNames(cols) == [i \in 1..Len(cols) |-> cols[i].name]
HasCol(cols, name) == \E i \in 1..Len(cols) : cols[i].name = name
ColIdx(cols, name) == CHOOSE i \in 1..Len(cols) : cols[i].name = name

RemoveAt(s, i) == SubSeq(s, 1, i - 1) \o SubSeq(s, i + 1, Len(s))

\* the type affinity of a declared type
EngAffinity(ty) ==
  CASE ty.base \in {"INT", "INTEGER", "TINYINT", "SMALLINT", "MEDIUMINT",
                    "BIGINT", "UNSIGNED BIG INT", "INT2", "INT8"} -> "INTEGER"
    [] ty.base \in {"CHARACTER", "VARCHAR", "VARYING CHARACTER", "NCHAR",
                    "NATIVE CHARACTER", "NVARCHAR", "TEXT", "CLOB"} -> "TEXT"
    [] ty.base \in {"BLOB", ""} -> "NONE"
    [] ty.base \in {"REAL", "DOUBLE", "DOUBLE PRECISION", "FLOAT"} -> "REAL"
    [] OTHER -> "NUMERIC"

\* the value a column of the given affinity stores for v
EngConvert(aff, v) ==
  CASE aff \in {"INTEGER", "NUMERIC"} ->
         IF v.k = "text" /\ IsNumeric(v.s) THEN IntV(ToInt(v.s))
         ELSE IF v.k = "real" THEN IntV(v.n)
         ELSE v
    [] aff = "TEXT" ->
         IF v.k \in {"int", "real"} THEN TextV(ToText(v.n)) ELSE v
    [] aff = "REAL" ->
         IF v.k = "text" /\ IsNumeric(v.s) THEN RealV(ToInt(v.s))
         ELSE IF v.k = "int" THEN RealV(v.n)
         ELSE v
    [] OTHER -> v

\* an INTEGER PRIMARY KEY column is an alias of the row identifier
IsRowidAlias(col) == col.pk /\ col.type.base = "INTEGER" /\ col.type.suffix = ""
HasAlias(cols) == \E i \in 1..Len(cols) : IsRowidAlias(cols[i])
AliasIdx(cols) == CHOOSE i \in 1..Len(cols) : IsRowidAlias(cols[i])

\* a table with a UNIQUE constraint or a primary key that is not the row
\* identifier owns an automatic index
HasAutoIndex(tbl) ==
  \/ tbl.uniq # << >>
  \/ \E i \in 1..Len(tbl.cols) : tbl.cols[i].pk /\ ~IsRowidAlias(tbl.cols[i])

AutoIndexName(name) == "sqlite_autoindex_" \o name \o "_1"

MaxRowidOf(rows) == IF rows = << >> THEN 0 ELSE rows[Len(rows)].rowid

InsertSorted(rows, row) ==
  LET below == SelectSeq(rows, LAMBDA r : r.rowid < row.rowid)
      above == SelectSeq(rows, LAMBDA r : r.rowid > row.rowid)
  IN  below \o << row >> \o above

\* INSERT of one row of values into a table: [err, tbl]
EngInsertRow(tbl, vals) ==
  LET cols == tbl.cols
      n == Len(cols)
  IN
  IF Len(vals) # n THEN [err |-> E_OPERATIONAL, tbl |-> tbl]
  ELSE
    LET conv == [i \in 1..n |-> EngConvert(EngAffinity(cols[i].type), vals[i])]
        alias == HasAlias(cols)
        a == IF alias THEN AliasIdx(cols) ELSE 0
        mismatch == alias /\ conv[a].k \notin {"null", "int"}
        rowid == IF alias /\ conv[a].k = "int" THEN conv[a].n
                 ELSE MaxRowidOf(tbl.rows) + 1
        final == [i \in 1..n |-> IF i = a THEN IntV(rowid) ELSE conv[i]]
        dupRowid == \E j \in 1..Len(tbl.rows) : tbl.rows[j].rowid = rowid
        nullViolation == \E i \in 1..n : cols[i].notnull /\ final[i] = NULL
        pkViolation ==
          \E i \in 1..n :
            /\ cols[i].pk /\ ~IsRowidAlias(cols[i]) /\ final[i] # NULL
            /\ \E j \in 1..Len(tbl.rows) : tbl.rows[j].vals[i] = final[i]
        uniqViolation ==
          /\ tbl.uniq # << >>
          /\ \E j \in 1..Len(tbl.rows) :
               \A u \in 1..Len(tbl.uniq) :
                 LET c == ColIdx(cols, tbl.uniq[u])
                 IN  final[c] # NULL /\ tbl.rows[j].vals[c] = final[c]
    IN
    IF mismatch \/ dupRowid \/ nullViolation \/ pkViolation \/ uniqViolation
    THEN [err |-> E_INTEGRITY, tbl |-> tbl]
    ELSE [err |-> E_OK,
          tbl |-> [tbl EXCEPT !.rows = InsertSorted(tbl.rows, Row(rowid, final))]]

RECURSIVE EngInsertRows(_, _)
\* the rows left to insert after the insert that ended in r
EngInsertRest(r, rs) ==
  IF r.err # E_OK THEN r ELSE EngInsertRows(r.tbl, rs)

\* INSERT of a sequence of rows, stopping at the first that fails
EngInsertRows(tbl, rs) ==
  IF rs = << >> THEN [err |-> E_OK, tbl |-> tbl]
  ELSE EngInsertRest(EngInsertRow(tbl, Head(rs)), Tail(rs))

ReplaceTable(d, name, tbl) == [d EXCEPT ![TableIdx(d, name)] = tbl]

----------------------------------------------------------------------------
(* Statement text.  The managers build statements by concatenation and by  *)
(* cutting the last character off, so the parts that decide whether a      *)
(* statement parses are kept as token sequences.                           *)

Sym(c) == [tk |-> "sym", s |-> c]
Ws == [tk |-> "ws", s |-> " "]
Name(n) == [tk |-> "name", s |-> n]
Kw(word, cs) == [tk |-> "kw", s |-> word, cs |-> cs]   \* cs: "U", "l" or "m"
Def(col) == [tk |-> "def", col |-> col]
QDef(col) == [tk |-> "qdef", col |-> col]                \* "name" type ...
Uniq(names) == [tk |-> "uniq", names |-> names]
Pred(col, op, lit) == [tk |-> "pred", col |-> col, op |-> op, lit |-> lit]

\* words of the engine's language: a name that is one must be quoted; so
\* must the text of 0 and of (), which are no names (that of None is one)
Keywords == {"select", "<0>", "<()>"}

\* s[:-1]
CutLast(s) == IF s = << >> THEN << >> ELSE SubSeq(s, 1, Len(s) - 1)

NoWs(s) == SelectSeq(s, LAMBDA t : t.tk # "ws")

\* item , item , ... , item  (at least one item, no dangling comma)
IsCommaList(s, kinds) ==
  /\ Len(s) % 2 = 1
  /\ \A i \in 1..Len(s) :
       IF i % 2 = 1 THEN s[i].tk \in kinds ELSE s[i] = Sym(",")

Items(s) == [i \in 1..((Len(s) + 1) \div 2) |-> s[2 * i - 1]]

CreateStmt(table, body) == [kind |-> "create", table |-> table, body |-> body]
DropStmt(table) == [kind |-> "drop", table |-> table]
RenameStmt(old, new) == [kind |-> "rename", table |-> old, new |-> new]
PragmaStmt == [kind |-> "pragma"]
AddColumnStmt(table, col, unique) ==
  [kind |-> "add_column", table |-> table, col |-> col, unique |-> unique]
InsertSelectStmt(table, proj, source) ==
  [kind |-> "insert_select", table |-> table, proj |-> proj, source |-> source]
InsertValuesStmt(table, params, record) ==
  [kind |-> "insert_values", table |-> table, params |-> params,
   record |-> record]
DeleteStmt(table, where) == [kind |-> "delete", table |-> table, where |-> where]
SelectStmt(proj, table) == [kind |-> "select", proj |-> proj, table |-> table]

\* the names sqlite_master lists: every table, followed by its automatic index
RECURSIVE CatalogNames(_)
CatalogNames(d) ==
  IF d = << >> THEN << >>
  ELSE (IF HasAutoIndex(Head(d))
        THEN << Head(d).name, AutoIndexName(Head(d).name) >>
        ELSE << Head(d).name >>) \o CatalogNames(Tail(d))

\* a NULL in the place of a type is read as a constraint, not as a type
DeclaredType(ty) == IF ty.base = "NULL" THEN T("") ELSE ty

\* CREATE TABLE name body
EngCreate(d, table, body) ==
  LET b == NoWs(body)
      shaped == /\ Len(b) >= 3
                /\ b[1] = Sym("(")
                /\ b[Len(b)] = Sym(")")
                /\ IsCommaList(SubSeq(b, 2, Len(b) - 1),
                               {"def", "qdef", "uniq"})
      items == Items(SubSeq(b, 2, Len(b) - 1))
      defs == SelectSeq(items, LAMBDA t : t.tk \in {"def", "qdef"})
      uniqs == SelectSeq(items, LAMBDA t : t.tk = "uniq")
      cols == [i \in 1..Len(defs) |->
                 [defs[i].col EXCEPT !.type = DeclaredType(@)]]
      valid == /\ shaped
               /\ items = defs \o uniqs
               /\ Len(defs) >= 1
               /\ \A i \in 1..Len(defs) :
                    defs[i].tk = "def" => defs[i].col.name \notin Keywords
               /\ Len(uniqs) <= 1
               /\ table \notin SeqToSet(CatalogNames(d))
               /\ \A i, j \in 1..Len(cols) :
                    cols[i].name = cols[j].name => i = j
               /\ Cardinality({i \in 1..Len(cols) : cols[i].pk}) <= 1
               /\ \A i \in 1..Len(uniqs) :
                    \A k \in 1..Len(uniqs[i].names) :
                      HasCol(cols, uniqs[i].names[k])
      uniq == IF uniqs = << >> THEN << >> ELSE uniqs[1].names
  IN  IF valid
      THEN [err |-> E_OK, db |-> Append(d, Table(table, cols, uniq, << >>))]
      ELSE [err |-> E_OPERATIONAL, db |-> d]

\* DROP TABLE IF EXISTS name
EngDrop(d, table) ==
  [err |-> E_OK, db |-> SelectSeq(d, LAMBDA t : t.name # table)]

\* ALTER TABLE old RENAME TO new
EngRename(d, old, new) ==
  IF HasTable(d, old) /\ new \notin SeqToSet(CatalogNames(d))
  THEN [err |-> E_OK,
        db |-> ReplaceTable(d, old, [GetTable(d, old) EXCEPT !.name = new])]
  ELSE [err |-> E_OPERATIONAL, db |-> d]

\* a table with one more column, NULL in it for the rows there are
WithColumn(tbl, col) ==
  [tbl EXCEPT !.cols = Append(@, col),
              !.rows = [i \in 1..Len(@) |->
                          [@[i] EXCEPT !.vals = Append(@, NULL)]]]

\* ALTER TABLE table ADD COLUMN "name" type [NOT] NULL [UNIQUE]: the engine
\* adds no UNIQUE column, and no NOT NULL column without a default to a
\* table that has rows
EngAddColumn(d, table, col, unique) ==
  IF \/ ~HasTable(d, table)
     \/ HasCol(GetTable(d, table).cols, col.name)
     \/ unique
     \/ col.notnull /\ GetTable(d, table).rows # << >>
  THEN [err |-> E_OPERATIONAL, db |-> d]
  ELSE [err |-> E_OK,
        db |-> ReplaceTable(d, table, WithColumn(GetTable(d, table), col))]

\* the value of a projected column of a row; ROWID is the row identifier
\* unless the table has a column of that name
Project(tbl, row, name) ==
  IF HasCol(tbl.cols, name) THEN row.vals[ColIdx(tbl.cols, name)]
  ELSE IntV(row.rowid)

ProjValid(d, proj, table) ==
  /\ IsCommaList(NoWs(proj), {"name"})
  /\ \A i \in 1..Len(Items(NoWs(proj))) :
       Items(NoWs(proj))[i].s \notin Keywords
  /\ HasTable(d, table)
  /\ \A i \in 1..Len(Items(NoWs(proj))) :
       \/ Items(NoWs(proj))[i].s = "ROWID"
       \/ HasCol(GetTable(d, table).cols, Items(NoWs(proj))[i].s)

\* SELECT proj FROM table: [err, rows]
EngSelect(d, proj, table) ==
  IF ~ProjValid(d, proj, table) THEN [err |-> E_OPERATIONAL, rows |-> << >>]
  ELSE LET tbl == GetTable(d, table)
           names == Items(NoWs(proj))
       IN  [err |-> E_OK,
            rows |-> [r \in 1..Len(tbl.rows) |->
                        [i \in 1..Len(names) |->
                           Project(tbl, tbl.rows[r], names[i].s)]]]

\* the database after an INSERT into the table that ended in r; a failed
\* statement leaves it as it was
EngInserted(d, table, r) ==
  IF r.err = E_OK THEN [err |-> E_OK, db |-> ReplaceTable(d, table, r.tbl)]
  ELSE [err |-> r.err, db |-> d]

\* INSERT INTO table VALUES (?, ..., ?) with the record bound to the marks
EngInsertValues(d, table, params, record) ==
  IF ~HasTable(d, table) \/ params = 0 \/ params # Len(record)
  THEN [err |-> E_OPERATIONAL, db |-> d]
  ELSE EngInserted(d, table, EngInsertRow(GetTable(d, table), record))

\* INSERT INTO table the rows a SELECT gave
EngInsertSelected(d, table, proj, sel) ==
  IF \/ ~HasTable(d, table)
     \/ sel.err # E_OK
     \/ Len(Items(NoWs(proj))) # Len(GetTable(d, table).cols)
  THEN [err |-> E_OPERATIONAL, db |-> d]
  ELSE EngInserted(d, table, EngInsertRows(GetTable(d, table), sel.rows))

\* INSERT INTO table SELECT proj FROM source
EngInsertSelect(d, table, proj, source) ==
  EngInsertSelected(d, table, proj, EngSelect(d, proj, source))

\* does the row satisfy  col op lit ?
PredHolds(tbl, row, p) ==
  LET v == Project(tbl, row, p.col)
      textAff == /\ HasCol(tbl.cols, p.col)
                 /\ EngAffinity(tbl.cols[ColIdx(tbl.cols, p.col)].type) = "TEXT"
  IN  CASE p.op = ">" ->
             CASE v.k = "null" -> FALSE
               [] v.k \in {"int", "real"} -> v.n > p.lit.n
               [] OTHER -> IF textAff /\ IsNumeric(v.s)
                           THEN ToInt(v.s) > p.lit.n
                           ELSE TRUE
        [] OTHER -> v = p.lit

\* DELETE FROM table where
EngDelete(d, table, where) ==
  LET w == NoWs(where)
      filtered == /\ Len(w) = 2
                  /\ w[1].tk = "kw" /\ w[1].s = "where"
                  /\ w[2].tk = "pred"
      valid == /\ HasTable(d, table)
               /\ \/ w = << >>
                  \/ /\ filtered
                     /\ \/ w[2].col = "ROWID"
                        \/ HasCol(GetTable(d, table).cols, w[2].col)
  IN  IF ~valid THEN [err |-> E_OPERATIONAL, db |-> d]
      ELSE LET tbl == GetTable(d, table)
               kept == IF w = << >> THEN << >>
                       ELSE SelectSeq(tbl.rows,
                                      LAMBDA r : ~PredHolds(tbl, r, w[2]))
           IN  [err |-> E_OK,
                db |-> ReplaceTable(d, table, [tbl EXCEPT !.rows = kept])]

\* cursor.execute(statement) for a statement that changes the database
EngExec(d, stmt) ==
  CASE stmt.kind = "create" -> EngCreate(d, stmt.table, stmt.body)
    [] stmt.kind = "drop" -> EngDrop(d, stmt.table)
    [] stmt.kind = "rename" -> EngRename(d, stmt.table, stmt.new)
    [] stmt.kind = "insert_select" ->
         EngInsertSelect(d, stmt.table, stmt.proj, stmt.source)
    [] stmt.kind = "insert_values" ->
         EngInsertValues(d, stmt.table, stmt.params, stmt.record)
    [] stmt.kind = "delete" -> EngDelete(d, stmt.table, stmt.where)
    [] stmt.kind = "add_column" ->
         EngAddColumn(d, stmt.table, stmt.col, stmt.unique)
    [] OTHER -> [err |-> E_OK, db |-> d]

----------------------------------------------------------------------------
(* Database Handle (lite.py).                                              *)

Result(res, d) == [res |-> res, db |-> d]

\* DB.TABLES
TABLES(d) == CatalogNames(d)

InTABLES(d, table) == table \in SeqToSet(TABLES(d))

\* the except clause of DB.execute: what the caller sees for an engine error
ExecuteOutcome(err) ==
  CASE err = E_OK -> R_TRUE
    [] err = E_OPERATIONAL -> R_FALSE
    [] OTHER -> R_RAISED

\* what DB.execute returns for the engine's answer r
ExecuteResult(r) == Result(ExecuteOutcome(r.err), r.db)

\* DB.execute
execute(d, stmt) == ExecuteResult(EngExec(d, stmt))

\* what DB.query returns for the engine's answer r: the rows, or False
QueryResult(r) ==
  IF r.err = E_OK THEN [res |-> R_TRUE, rows |-> r.rows]
  ELSE [res |-> R_FALSE, rows |-> << >>]

\* DB.query
query(d, stmt) == QueryResult(EngSelect(d, stmt.proj, stmt.table))

\* SELECT * FROM table: [err, rows]
EngSelectAll(d, table) ==
  IF ~HasTable(d, table) THEN [err |-> E_OPERATIONAL, rows |-> << >>]
  ELSE [err |-> E_OK,
        rows |-> [r \in 1..Len(GetTable(d, table).rows) |->
                    GetTable(d, table).rows[r].vals]]

\* what fetchone returns when there is no row
NoRow == << PyNone >>

\* cursor.fetchone()
fetchone(rows) == IF rows = << >> THEN NoRow ELSE rows[1]

\* cursor.fetchmany(size): a size below one sets no limit
fetchmany(rows, size) ==
  IF size < 1 \/ size > Len(rows) THEN rows ELSE SubSeq(rows, 1, size)

\* int(get) succeeds: get is a number, or a string that is a numeral
HasInt(get) == get.k = "int" \/ IsNumeric(get.s)

\* int(get)
Conv(get) == IF get.k = "int" THEN get.n ELSE ToInt(get.s)

Fetched(rows) == [res |-> R_TRUE, rows |-> rows]
NotFetched(res) == [res |-> res, rows |-> << >>]

\* fetch after the SELECT has returned sel; the SELECT is outside the try
FetchRows(get, sel) ==
  IF sel.err # E_OK THEN NotFetched(R_RAISED)
  ELSE IF get = TextV("*") THEN Fetched(sel.rows)
  ELSE IF get = TextV("1") THEN Fetched(<< fetchone(sel.rows) >>)
  ELSE Fetched(fetchmany(sel.rows, Conv(get)))

\* a file of the disk: a database, or no file under the name
File(d) == [exists |-> TRUE, db |-> d]
NoFile == [exists |-> FALSE, db |-> EmptyDB]

NewDbResult(res, dsk, current) ==
  [res |-> res, disk |-> dsk, current |-> current]

\* a new_db that does not look for a file of the name
new_dbOverwrites(dsk, current, name) ==
  NewDbResult(R_TRUE, [dsk EXCEPT ![name] = File(EmptyDB)], name)

\* DB.new_db: connect(name) makes the file, an empty database
new_db(dsk, current, name) ==
  IF dsk[name].exists THEN NewDbResult(R_FALSE, dsk, current)
  ELSE NewDbResult(R_TRUE, [dsk EXCEPT ![name] = File(EmptyDB)], name)

\* DB.drop_db
drop_db(dsk, current, name) ==
  IF ~dsk[name].exists THEN NewDbResult(R_FALSE, dsk, current)
  ELSE NewDbResult(R_TRUE, [dsk EXCEPT ![name] = NoFile], current)

\* DB.fetch; get is a string (TextV) or a number (IntV)
fetch(d, table, get) ==
  IF ~InTABLES(d, table) THEN NotFetched(R_FALSE)
  ELSE IF ~(get \in {TextV("*"), TextV("1")} \/ HasInt(get))
  THEN NotFetched(R_RAISED)
  ELSE FetchRows(get, EngSelectAll(d, table))

----------------------------------------------------------------------------
(* Table Manager (_tables.py).                                             *)

\* a field given as a bare name, and as a (name, type) pair
Bare(name) == [bare |-> TRUE, name |-> name, type |-> T("")]
Pair(name, type) == [bare |-> FALSE, name |-> name, type |-> type]

\* Python values that are not strings, as they stand in a field descriptor:
\* None, 0 and () are falsy, 5 is not
NonStrings == {PyNone, "<0>", "<()>", "<5>"}
Falsy == {PyNone, "<0>", "<()>"}

\* an entry of fields that is neither a string nor a sequence
NotSeq(v) == [bare |-> FALSE, name |-> v, type |-> T(""), shape |-> "other"]

\* a sequence with fewer than two elements: () and (v,)
Short0 == [bare |-> FALSE, name |-> PyNone, type |-> T(""), shape |-> "len0"]
Short1(v) == [bare |-> FALSE, name |-> v, type |-> T(""), shape |-> "len1"]

\* the shape of an entry of fields
Shape(field) ==
  IF "shape" \in DOMAIN field THEN field.shape
  ELSE IF field.bare THEN "str" ELSE "pair"

\* the value the loop of create calls "unsupported" for a sequence: the
\* first of field[0] and field[1] that is not a string, else None
Unsupported(field) ==
  IF field.name \in NonStrings THEN field.name
  ELSE IF field.type.base \in NonStrings THEN field.type.base
  ELSE PyNone

\* f in fields, for a string f: a pair never equals a string
InFields(f, flds) == \E i \in 1..Len(flds) : flds[i].bare /\ flds[i].name = f

\* a dict that puts a new key in front of the others
DictSetFront(columns, name, type) ==
  IF \E i \in 1..Len(columns) : columns[i].name = name
  THEN [i \in 1..Len(columns) |->
          IF columns[i].name = name THEN [name |-> name, type |-> type]
          ELSE columns[i]]
  ELSE << [name |-> name, type |-> type] >> \o columns

\* columns[name] = type on the insertion-ordered dict
DictSet(columns, name, type) ==
  IF \E i \in 1..Len(columns) : columns[i].name = name
  THEN [i \in 1..Len(columns) |->
          IF columns[i].name = name THEN [name |-> name, type |-> type]
          ELSE columns[i]]
  ELSE Append(columns, [name |-> name, type |-> type])

DictHas(columns, name) == \E i \in 1..Len(columns) : columns[i].name = name
DictDel(columns, name) == SelectSeq(columns, LAMBDA c : c.name # name)

\* affinity = [i.split('(')[0] for j in AFFINITY.values() for i in j]
affinity == [i \in 1..Len(AffinityValues) |-> SplitParen(AffinityValues[i])]

\* the type create stores for a pair's type
field_type(ty) == Upper(ty)

\* does create accept the type of a (name, type) pair?
accepted(ty) ==
  \/ field_type(ty) \in SeqToSet(GENERAL)
  \/ \E i \in 1..Len(affinity) : field_type(ty) = affinity[i]

\* one pass of the loop of create over an entry of fields: "ok" when the
\* entry goes into columns, "false" when create returns False, "raise" when
\* field[0], field[1] or field[1].upper() raises
FieldCheck(field) ==
  CASE Shape(field) = "other" -> "false"
    [] Shape(field) = "str" -> "ok"
    [] Shape(field) = "len0" -> "raise"
    [] Shape(field) = "len1" ->
         IF field.name \in NonStrings \ Falsy THEN "false" ELSE "raise"
    [] OTHER ->
         IF Unsupported(field) \notin Falsy THEN "false"
         ELSE IF field.type.base \in NonStrings THEN "raise"
         ELSE IF accepted(field.type) THEN "ok" ELSE "false"

RECURSIVE FieldsCheck(_)
\* the loop of create over fields: it ends at the first entry not "ok"
FieldsCheck(flds) ==
  IF flds = << >> THEN "ok"
  ELSE IF FieldCheck(Head(flds)) # "ok" THEN FieldCheck(Head(flds))
  ELSE FieldsCheck(Tail(flds))

\* the type create gives a field
FieldType(field, pk) ==
  IF field.bare
  THEN IF pk # PyNone /\ field.name = pk THEN GENERAL[2] ELSE GENERAL[4]
  ELSE field_type(field.type)

RECURSIVE BuildColumns(_, _, _)
\* the dict "columns" after the loop over the fields left to visit
BuildColumns(flds, pk, columns) ==
  IF flds = << >> THEN columns
  ELSE BuildColumns(Tail(flds), pk,
                    DictSet(columns, Head(flds).name, FieldType(Head(flds), pk)))

RECURSIVE ColumnCodes(_, _)
\* "\n   {field} {atype} {is_null}," for every entry of columns
ColumnCodes(columns, null) ==
  IF columns = << >> THEN << >>
  ELSE << Def(Column(Head(columns).name, Head(columns).type,
                     Head(columns).name \notin SeqToSet(null), FALSE)),
          Sym(",") >> \o ColumnCodes(Tail(columns), null)

\* a create that reports success on a table that already exists
ExistsResultTrue == R_TRUE

\* the result of create on a table that already exists
ExistsResult == R_FALSE

\* the part of the statement that holds the primary key
PkCodes(auto, pk) ==
  IF auto /\ pk = PyNone
  THEN << Def(Column("id", T("INTEGER"), TRUE, TRUE)), Sym(",") >>
  ELSE << >>

\* del columns[pk] when pk is one of the columns
DropPk(columns, pk) ==
  IF pk # PyNone /\ DictHas(columns, pk) THEN DictDel(columns, pk) ELSE columns

\* the dict "columns" when the statement is generated
CreateColumns(flds, pk) == DropPk(BuildColumns(flds, pk, << >>), pk)

\* the column list of the statement, from "(" to ")"
CreateCodes(flds, auto, null, pk, uniques) ==
  CutLast(<< Sym("(") >> \o PkCodes(auto, pk)
            \o ColumnCodes(CreateColumns(flds, pk), null)
            \o (IF Len(uniques) > 0
                THEN << Uniq(uniques), Sym(",") >> ELSE << >>))
    \o << Sym(")") >>

\* what create returns for the engine's answer r
CreateResult(r) == Result(IF r.err = E_OK THEN R_TRUE ELSE R_FALSE, r.db)

\* Tables.create
create(d, table, flds, auto, null, pk, uniques) ==
  IF InTABLES(d, table) THEN Result(ExistsResult, d)
  ELSE IF \E i \in 1..Len(uniques \o null) : ~InFields((uniques \o null)[i], flds)
  THEN Result(R_FALSE, d)
  ELSE IF FieldsCheck(flds) = "false" THEN Result(R_FALSE, d)
  ELSE IF FieldsCheck(flds) = "raise" THEN Result(R_RAISED, d)
  ELSE IF \E i \in 1..Len(CreateColumns(flds, pk)) :
            CreateColumns(flds, pk)[i].name = pk
  THEN Result(R_RAISED, d)
  ELSE CreateResult(EngExec(d, CreateStmt(table,
                                 CreateCodes(flds, auto, null, pk, uniques))))

\* Tables.drop
drop(d, table) ==
  IF ~InTABLES(d, table) THEN Result(R_FALSE, d)
  ELSE execute(d, DropStmt(table))

\* a rename that passes the two names to the engine in the wrong order
renameSwapped(d, old, new) ==
  IF ~InTABLES(d, old) \/ InTABLES(d, new) THEN Result(R_FALSE, d)
  ELSE execute(d, RenameStmt(new, old))

\* Tables.rename
rename(d, old, new) ==
  IF ~InTABLES(d, old) \/ InTABLES(d, new) THEN Result(R_FALSE, d)
  ELSE execute(d, RenameStmt(old, new))

----------------------------------------------------------------------------
(* Column Manager (_columns.py) and Record Manager (_records.py).          *)

\* Columns.fields(table): the column names, or (None,)
fields(d, table) ==
  IF ~InTABLES(d, table) THEN << PyNone >>
  ELSE IF ~HasTable(d, table) THEN << >>
  ELSE ColNames(GetTable(d, table).cols)

\* Columns.add
add(d, table, column, unique, null, ftype) ==
  IF ~InTABLES(d, table) \/ column \in SeqToSet(fields(d, table))
  THEN Result(R_FALSE, d)
  ELSE execute(d, AddColumnStmt(table, Column(column, ftype, ~null, FALSE),
                                unique))

\* Columns.fields(table, True): the (name, type) pairs, or (None,)
fields_types(d, table) ==
  IF ~InTABLES(d, table) THEN << [name |-> PyNone, type |-> T("")] >>
  ELSE IF ~HasTable(d, table) THEN << >>
  ELSE [i \in 1..Len(GetTable(d, table).cols) |->
          [name |-> GetTable(d, table).cols[i].name,
           type |-> GetTable(d, table).cols[i].type]]

\* record.append(empty) while the record is shorter than the field count
Pad(record, n, empty) ==
  IF Len(record) >= n THEN record
  ELSE record \o [i \in 1..(n - Len(record)) |-> empty]

\* the except clause of Records.insert
InsertOutcome(err) ==
  CASE err = E_OK -> R_TRUE
    [] err = E_OPERATIONAL -> R_FALSE
    [] OTHER -> R_RAISED

\* what insert returns for the engine's answer r
InsertResult(r) == Result(InsertOutcome(r.err), r.db)

\* the statement of insert for the padded record
InsertCode(table, padded) == InsertValuesStmt(table, Len(padded), padded)

\* Records.insert
insert(d, table, record, empty) ==
  IF ~InTABLES(d, table) THEN Result(R_FALSE, d)
  ELSE InsertResult(EngExec(d, InsertCode(table,
                               Pad(record, Len(fields(d, table)), empty))))

\* str.lower() of the text of a literal
LowerText(t) == CASE t = "Ann" -> "ann" [] t = "Bob" -> "bob" [] OTHER -> t

\* str.lower()
Lower(toks) ==
  [i \in 1..Len(toks) |->
     CASE toks[i].tk = "kw" -> [toks[i] EXCEPT !.cs = "l"]
       [] toks[i].tk = "pred" ->
            [toks[i] EXCEPT !.lit = IF @.k = "text" THEN TextV(LowerText(@.s))
                                    ELSE @]
       [] OTHER -> toks[i]]

IsSep(t) == t.tk = "kw" /\ t.s = "where" /\ t.cs = "l"

RECURSIVE Split(_, _)
\* str.split('where'): the pieces between the occurrences of "where";
\* cur is the piece being read
Split(toks, cur) ==
  IF toks = << >> THEN << cur >>
  ELSE IF IsSep(Head(toks)) THEN << cur >> \o Split(Tail(toks), << >>)
  ELSE Split(Tail(toks), Append(cur, Head(toks)))

RECURSIVE LStrip(_)
LStrip(toks) ==
  IF toks # << >> /\ Head(toks).tk = "ws" THEN LStrip(Tail(toks)) ELSE toks

RECURSIVE RStrip(_)
RStrip(toks) ==
  IF toks # << >> /\ toks[Len(toks)].tk = "ws" THEN RStrip(CutLast(toks))
  ELSE toks

\* str.strip()
Strip(toks) == RStrip(LStrip(toks))

\* where.lower().split('where')
WherePieces(where) == Split(Lower(where), << >>)

\* a delete_record that splits the filter even when there is none
delete_recordAlwaysSplits(d, table, where) ==
  IF ~InTABLES(d, table) THEN Result(R_FALSE, d)
  ELSE IF Len(WherePieces(where)) < 2 THEN Result(R_RAISED, d)
  ELSE execute(d, DeleteStmt(table, << Kw("where", "U"), Ws >>
                                      \o Strip(WherePieces(where)[2])))

\* Records.delete_record; an empty where stands for None
delete_record(d, table, where) ==
  IF ~InTABLES(d, table) THEN Result(R_FALSE, d)
  ELSE IF where = << >> THEN execute(d, DeleteStmt(table, << >>))
  ELSE IF Len(WherePieces(where)) < 2 THEN Result(R_RAISED, d)
  ELSE execute(d, DeleteStmt(table, << Kw("where", "U"), Ws >>
                                      \o Strip(WherePieces(where)[2])))

\* the attributes Columns.__init__ sets on the object
ColumnsAttrs == {"database"}

\* list.remove(x): without the first occurrence of x
ListRemove(s, x) == RemoveAt(s, CHOOSE i \in 1..Len(s) :
                                  s[i] = x /\ \A j \in 1..(i - 1) : s[j] # x)

RECURSIVE SelectCodes(_)
\* " {field}," for every field
SelectCodes(flds) ==
  IF flds = << >> THEN << >>
  ELSE << Ws, Name(Head(flds)), Sym(",") >> \o SelectCodes(Tail(flds))

RECURSIVE InsertAll(_, _, _)
\* the loop after an insert that returned r: an exception ends it
InsertRest(r, table, records) ==
  IF r.res = R_RAISED THEN r ELSE InsertAll(r.db, table, records)

\* for record in records: insert(table, record)
InsertAll(d, table, records) ==
  IF records = << >> THEN Result(R_TRUE, d)
  ELSE InsertRest(insert(d, table, Head(records), NULL), table, Tail(records))

\* the fields remove passes to create
BareFields(names) == [i \in 1..Len(names) |-> Bare(names[i])]

\* the fields left when column is removed
Remaining(d, table, column) == ListRemove(fields(d, table), column)

\* the end of remove: the loop over the records read, on the database
\* "created" that the drop and the create have left
Reinsert(table, records, created) ==
  IF records.res = R_FALSE THEN Result(R_RAISED, created)
  ELSE IF records.rows = << >> THEN Result(R_TRUE, created)
  ELSE IF "records" \notin ColumnsAttrs THEN Result(R_RAISED, created)
  ELSE InsertAll(created, table, records.rows)

\* a removal of the only column that reports success and drops nothing
RemoveLastKeeps(d, table) == Result(R_TRUE, d)

\* remove when no field is left: drop the table, return True
RemoveLast(d, table) == Result(R_TRUE, drop(d, table).db)

\* Columns.remove
remove(d, table, column) ==
  IF ~InTABLES(d, table) THEN Result(R_FALSE, d)
  ELSE IF column \notin SeqToSet(fields(d, table)) THEN Result(R_FALSE, d)
  ELSE IF Len(Remaining(d, table, column)) = 0
  THEN RemoveLast(d, table)
  ELSE Reinsert(table,
                query(d, SelectStmt(CutLast(SelectCodes(
                                      Remaining(d, table, column))), table)),
                create(drop(d, table).db, table,
                       BareFields(Remaining(d, table, column)), TRUE,
                       << >>, PyNone, << >>).db)

\* the except clause of check: an exception of execute becomes False
Caught(d, r) == IF r.res = R_RAISED THEN Result(R_FALSE, d) ELSE r

\* check(code) inside primary_key: execute, with both engine errors caught
check(d, stmt) == Caught(d, execute(d, stmt))

\* the name primary_key moves the table to
OldName(table) == "old_" \o table

RECURSIVE PkColumnCodes(_)
\* "{column} {ctype} NOT NULL," for every remaining column
PkColumnCodes(columns) ==
  IF columns = << >> THEN << >>
  ELSE << Def(Column(Head(columns).name, Head(columns).type, TRUE, FALSE)),
          Sym(",") >> \o PkColumnCodes(Tail(columns))

RECURSIVE Join(_)
\* ', '.join(names)
Join(names) ==
  IF names = << >> THEN << >>
  ELSE IF Len(names) = 1 THEN << Name(names[1]) >>
  ELSE << Name(names[1]), Sym(","), Ws >> \o Join(Tail(names))

\* the SELECT list of the copy: f"{rowid}, " then f"{columns[0]}, " then
\* the join of the others
CopyProjection(rowid, names) ==
  << Name(rowid), Sym(","), Ws >>
    \o << Name(names[1]), Sym(","), Ws >> \o Join(Tail(names))

\* the new table's statement
PkCreateStmt(table, column, ftype, columns) ==
  CreateStmt(table,
             CutLast(<< Sym("("), Def(Column(column, ftype, TRUE, TRUE)),
                        Sym(","), Ws >> \o PkColumnCodes(columns))
               \o << Sym(")") >>)

\* a rollback that drops the new table and leaves the old one renamed
RollbackDropOnly(d, table) == Result(R_FALSE, drop(d, table).db)

\* the steps of primary_key after the copy has failed
Rollback(d, table) ==
  Result(R_FALSE, rename(drop(d, table).db, OldName(table), table).db)

\* rowid = column if column in columns else 'ROWID'
PkRowid(d, table, column) ==
  IF column \in SeqToSet(fields(d, table)) THEN column ELSE "ROWID"

\* the dict of the table's (name, type) pairs, without the promoted column
PkColumns(d, table, column) ==
  IF PkRowid(d, table, column) # "ROWID"
  THEN DictDel(fields_types(d, table), column)
  ELSE fields_types(d, table)

\* step 4 after the two PRAGMAs have returned pragma: CREATE TABLE
PkCreate(d, table, column, ftype, pragma) ==
  IF pragma.res = R_FALSE THEN pragma
  ELSE check(pragma.db,
             PkCreateStmt(table, column, ftype, PkColumns(d, table, column)))

\* steps 3 and 4 up to the new table: rename, the two PRAGMAs, CREATE TABLE
PkMade(d, table, column, ftype) ==
  PkCreate(d, table, column, ftype,
           check(check(rename(d, table, OldName(table)).db, PragmaStmt).db,
                 PragmaStmt))

\* the copy of the rows into the new table, on the database "made"
PkCopy(d, table, column, made) ==
  check(made,
        InsertSelectStmt(table,
                         CopyProjection(PkRowid(d, table, column),
                                        ColNames(PkColumns(d, table, column))),
                         OldName(table)))

\* the copy of the rows into the new table
PkCopied(d, table, column, ftype) ==
  PkCopy(d, table, column, PkMade(d, table, column, ftype).db)

\* an end of primary_key that forgets to drop the old table
PkFinishKeepsOld(table, made, copied) ==
  IF copied.res = R_FALSE THEN Rollback(made, table)
  ELSE Result(R_TRUE, copied.db)

\* the end of primary_key, after the copy has returned copied
PkFinish(table, made, copied) ==
  IF copied.res = R_FALSE THEN Rollback(made, table)
  ELSE Result(R_TRUE, drop(copied.db, OldName(table)).db)

\* a primary_key that rolls back when the new table could not be made
PkAfterCreateRollsBack(d, table, column, made) ==
  IF made.res = R_FALSE THEN Rollback(made.db, table)
  ELSE IF PkColumns(d, table, column) = << >> THEN Result(R_RAISED, made.db)
  ELSE PkFinish(table, made.db, PkCopy(d, table, column, made.db))

\* primary_key after the new table's statement has returned made
PkAfterCreate(d, table, column, made) ==
  IF made.res = R_FALSE THEN Result(R_FALSE, made.db)
  ELSE IF PkColumns(d, table, column) = << >> THEN Result(R_RAISED, made.db)
  ELSE PkFinish(table, made.db, PkCopy(d, table, column, made.db))

\* Columns.primary_key
primary_key(d, table, column, ftype) ==
  IF fields(d, table) = << PyNone >> THEN Result(R_FALSE, d)
  ELSE PkAfterCreate(d, table, column, PkMade(d, table, column, ftype))

\* DB.schema: the dict as its (key, value) items in insertion order
schema(d) ==
  [i \in 1..Len(TABLES(d)) |->
     [key |-> TABLES(d)[i], value |-> fields(d, TABLES(d)[i])]]

----------------------------------------------------------------------------
(* The calls the model makes.                                              *)

EMPLOYER == "employer"

\* the names of the files on the disk, and the one the object is made with
FirstFile == "a.db"
FileNames == {FirstFile, "b.db"}
TableNames == {EMPLOYER, OldName(EMPLOYER)}

\* the field list of the specification's scenario, and shorter ones
Fields3 == << Bare("name"), Pair("age", T("INTEGER")), Bare("email") >>
Fields2 == << Pair("name", TY("TEXT", "", FALSE)),
              Pair("age", TY("INTEGER", "", FALSE)) >>
Fields1 == << Bare("name") >>
FieldLists == {Fields3, Fields2, Fields1}

\* types a caller may write in a (name, type) pair
TypeInputs ==
  { T("INTEGER"), TY("TEXT", "", FALSE), T("NULL"), T("BLOB"), T("REAL"),
    TY("VARCHAR", "(255)", TRUE), TY("VARCHAR", "(255)", FALSE), T("VARCHAR"),
    TY("CHARACTER", "(20)", TRUE), TY("DECIMAL", "(10,5)", TRUE),
    T("DECIMAL"), TY("INT8", "", FALSE), T(""), T("CLOB"), T("DATE"),
    T("FOO"), T("INT"), T("NUMERIC"), TY("VARCHAR", "(10)", TRUE) }

CreateArgs(table, flds, auto, null, pk, uniques) ==
  [table |-> table, flds |-> flds, auto |-> auto, null |-> null, pk |-> pk,
   uniques |-> uniques]

\* auto, null, pk and uniques as the calls combine them
CreateOptions ==
  { << TRUE, << >>, PyNone, << >> >>,
    << FALSE, << >>, PyNone, << >> >>,
    << FALSE, << "email" >>, PyNone, << >> >>,
    << TRUE, << >>, PyNone, << "name" >> >>,
    << TRUE, << >>, "age", << >> >>,
    << FALSE, << >>, "name", << >> >>,
    << TRUE, << >>, "k", << >> >> }

\* the calls of create the Table Manager is checked on
CreateInputs ==
  { CreateArgs(EMPLOYER, f, o[1], o[2], o[3], o[4]) :
      f \in FieldLists, o \in CreateOptions }
  \cup { CreateArgs(EMPLOYER, << Pair("name", ty), Bare("email") >>,
                    o[1], o[2], o[3], o[4]) :
           ty \in TypeInputs,
           o \in { << TRUE, << >>, PyNone, << >> >>,
                   << FALSE, << >>, "name", << >> >> } }
  \cup { CreateArgs(OldName(EMPLOYER), Fields1, FALSE, << >>, PyNone, << >>) }
  \cup { CreateArgs(EMPLOYER, Fields3, TRUE, o[1], PyNone, o[2]) :
           o \in { << << "age" >>, << >> >>, << << >>, << "age" >> >>,
                   << << "zip" >>, << >> >>, << << >>, << "zip" >> >>,
                   << << "email" >>, << "name", "email" >> >> } }

\* malformed entries of fields: not a string or sequence, too short, or a
\* pair whose name or type is not a string
MalformedFields ==
  { NotSeq(v) : v \in NonStrings }
  \cup { Short0 } \cup { Short1(v) : v \in {"a", PyNone, "<5>"} }
  \cup { Pair(n, T("TEXT")) : n \in NonStrings }
  \cup { Pair("a", T(v)) : v \in NonStrings }
  \cup { Pair(PyNone, T(PyNone)), Pair("<5>", T(PyNone)) }

\* the calls of create with a malformed entry before or after a sound one
MalformedInputs ==
  { CreateArgs(EMPLOYER, << f, Bare("email") >>, TRUE, << >>, PyNone, << >>) :
      f \in MalformedFields }
  \cup { CreateArgs(EMPLOYER, << Bare("email"), f >>, TRUE, << >>, PyNone, << >>) :
           f \in MalformedFields }

\* the tables the Record Manager is checked on
RecordTables ==
  { CreateArgs(EMPLOYER, Fields3, TRUE, << >>, PyNone, << >>),
    CreateArgs(EMPLOYER, Fields3, FALSE, << >>, PyNone, << >>),
    CreateArgs(EMPLOYER, Fields3, FALSE, << "email" >>, PyNone, << >>),
    CreateArgs(EMPLOYER, Fields3, TRUE, << "email" >>, PyNone, << >>),
    CreateArgs(EMPLOYER, Fields3, TRUE, << >>, PyNone, << "name" >>),
    CreateArgs(OldName(EMPLOYER), Fields1, FALSE, << >>, PyNone, << >>) }

\* the tables made in the files
FileTables ==
  { CreateArgs(EMPLOYER, Fields1, FALSE, << >>, PyNone, << >>),
    CreateArgs(OldName(EMPLOYER), Fields1, FALSE, << >>, PyNone, << >>) }

\* the records the files' tables are filled with
FileRecords == { << TextV("Bob") >> }

\* the tables the Column Manager is checked on
ColumnTables ==
  { CreateArgs(EMPLOYER, Fields3, TRUE, << >>, PyNone, << >>),
    CreateArgs(EMPLOYER, Fields3, FALSE, << >>, PyNone, << >>),
    CreateArgs(EMPLOYER, Fields3, FALSE, << "email" >>, PyNone, << >>),
    CreateArgs(EMPLOYER, Fields1, FALSE, << >>, PyNone, << >>),
    CreateArgs(OldName(EMPLOYER), Fields1, FALSE, << >>, PyNone, << >>) }

Records ==
  { << TextV("Ann"), IntV(30) >>,
    << NULL, TextV("Ann"), IntV(30), TextV("e") >>,
    << NULL, TextV("Bob"), IntV(70), TextV("e") >>,
    << IntV(1), TextV("Ann"), IntV(30), TextV("e") >>,
    << TextV("Ann"), IntV(30), TextV("e") >>,
    << TextV("1"), IntV(70), TextV("e") >>,
    << TextV("Bob") >> }

\* the tables the catalog's views are checked on: with and without the
\* automatic index of a UNIQUE constraint, under both names
CatalogTables ==
  { CreateArgs(EMPLOYER, Fields3, TRUE, << >>, PyNone, << "name" >>),
    CreateArgs(EMPLOYER, Fields3, FALSE, << >>, PyNone, << >>),
    CreateArgs(EMPLOYER, Fields1, FALSE, << >>, PyNone, << >>),
    CreateArgs(OldName(EMPLOYER), Fields1, TRUE, << >>, PyNone, << "name" >>),
    CreateArgs(OldName(EMPLOYER), Fields1, FALSE, << >>, PyNone, << >>) }

\* the tables columns are added to
AddTables ==
  { CreateArgs(EMPLOYER, Fields3, TRUE, << "email" >>, PyNone, << >>),
    CreateArgs(EMPLOYER, Fields3, FALSE, << >>, PyNone, << >>),
    CreateArgs(EMPLOYER, Fields1, FALSE, << >>, PyNone, << >>) }

AddArgs(column, unique, null, ftype) ==
  [column |-> column, unique |-> unique, null |-> null, ftype |-> ftype]

\* the calls of add: a new column and one that is there, with the options
AddInputs ==
  { AddArgs(c, u, n, T("TEXT")) :
      c \in {"zip", "name"}, u \in BOOLEAN, n \in BOOLEAN }
  \cup { AddArgs("zip", FALSE, TRUE, T("INTEGER")) }

\* the records the Column Manager's tables are filled with
ColumnRecords ==
  { << NULL, TextV("Ann"), IntV(30), TextV("e") >>,
    << TextV("Ann"), IntV(30), TextV("e") >>,
    << TextV("1"), IntV(70), TextV("e") >>,
    << TextV("Ann"), IntV(30) >>,
    << TextV("Bob") >> }

Empties == {NULL, TextV("")}

\* a statement a caller passes to execute: a table with a column whose
\* name is a word of the engine's language, quoted as it must be
QuotedCreate ==
  CreateStmt(EMPLOYER,
             << Sym("("), QDef(Column("select", T("TEXT"), TRUE, FALSE)),
                Sym(","), Ws, Def(Column("name", T("TEXT"), TRUE, FALSE)),
                Sym(")") >>)

AgeOver65 == Pred("age", ">", IntV(65))

Wheres ==
  { << >>,
    << AgeOver65 >>,
    << Kw("where", "U"), Ws, AgeOver65 >>,
    << Kw("where", "m"), Ws, AgeOver65 >>,
    << Kw("where", "U"), Ws, Pred("name", "=", TextV("Ann")) >> }

RenameInputs == { << OldName(EMPLOYER), EMPLOYER >> }

\* the renames the Table Manager is checked on
RenamePairs ==
  { << EMPLOYER, OldName(EMPLOYER) >>, << OldName(EMPLOYER), EMPLOYER >> }

\* names a caller may pass for a table: the tables', one of no table, and
\* the name of the automatic index of a table
NameInputs == TableNames \cup {"staff", AutoIndexName(EMPLOYER)}

ColumnInputs == {"id", "name", "email", "k"}

\* the modes fetch is called with: the two words, numbers as strings and
\* as numbers, below and above the number of rows, and a word of no mode
FetchInputs ==
  { TextV("*"), TextV("1"), TextV("2"), TextV("5"),
    IntV(1), IntV(2), IntV(0), TextV("abc") }

\* the columns removed after an add
RemoveInputs == {"zip", "name"}

PrimaryKeyInputs ==
  { << "age", T("INTEGER") >>, << "name", T("INTEGER") >>,
    << "name", T("TEXT") >>, << "k", T("INTEGER") >>,
    << "id", T("INTEGER") >> }

\* the engine can still hand out a row identifier within the bound
Room(d, table) ==
  HasTable(d, table) => MaxRowidOf(GetTable(d, table).rows) < MaxRowid

Called(op, r) == [op |-> op, res |-> r.res]

----------------------------------------------------------------------------
(* The state machine: one action per operation of the managers.  Each      *)
(* specification below runs the operations of one manager, on the calls    *)
(* that manager is checked on, together with the operations that build the *)
(* tables it works on.                                                     *)

\* DB(FirstFile) where there is no file: __init__ binds the name and new_db
\* makes the file
Init ==
  /\ db = EmptyDB
  /\ last = [op |-> "init", res |-> R_TRUE]
  /\ promotions = 0
  /\ current_db = new_db([f \in FileNames |-> NoFile], FirstFile, FirstFile).current
  /\ disk = new_db([f \in FileNames |-> NoFile], FirstFile, FirstFile).disk

\* a call of op has returned r: every operation of the managers connects
\* to the current file, which makes the file if there is none
Step(op, r) ==
  /\ db' = r.db
  /\ last' = Called(op, r)
  /\ promotions' = IF op = "primary_key" /\ r.res = R_TRUE
                   THEN promotions + 1 ELSE promotions
  /\ current_db' = current_db
  /\ disk' = [disk EXCEPT ![current_db] = File(r.db)]

\* a call of new_db or drop_db has returned r
FileStep(op, r) ==
  /\ db' = r.disk[r.current].db
  /\ last' = Called(op, r)
  /\ promotions' = promotions
  /\ current_db' = r.current
  /\ disk' = r.disk

NewDb ==
  \E name \in FileNames : FileStep("new_db", new_db(disk, current_db, name))

DropDb ==
  \E name \in FileNames : FileStep("drop_db", drop_db(disk, current_db, name))

Create(inputs) ==
  \E a \in inputs :
    Step("create",
         create(db, a.table, a.flds, a.auto, a.null, a.pk, a.uniques))

Drop ==
  \E t \in TableNames : Step("drop", drop(db, t))

Rename(inputs) ==
  \E p \in inputs : Step("rename", rename(db, p[1], p[2]))

Insert(records, empties) ==
  \E rec \in records, e \in empties :
    /\ Room(db, EMPLOYER)
    /\ Step("insert", insert(db, EMPLOYER, rec, e))

Execute ==
  \E rec \in Records :
    /\ Room(db, EMPLOYER)
    /\ Step("execute",
            execute(db, InsertValuesStmt(EMPLOYER, Len(rec), rec)))

ExecuteCreate == Step("execute", execute(db, QuotedCreate))

DeleteRecord ==
  \E w \in Wheres : Step("delete_record", delete_record(db, EMPLOYER, w))

Remove(inputs) ==
  \E c \in inputs : Step("remove", remove(db, EMPLOYER, c))

Add ==
  \E a \in AddInputs :
    Step("add", add(db, EMPLOYER, a.column, a.unique, a.null, a.ftype))

PrimaryKey ==
  \E p \in PrimaryKeyInputs :
    /\ promotions < MaxPromotions
    /\ Step("primary_key", primary_key(db, EMPLOYER, p[1], p[2]))

NextTables ==
  \/ Create(CreateInputs \cup MalformedInputs)
  \/ Drop
  \/ Insert(Records, Empties)

NextRecords ==
  \/ Create(RecordTables)
  \/ Insert(Records, Empties)
  \/ Execute
  \/ DeleteRecord

NextColumns ==
  \/ Create(ColumnTables)
  \/ Drop
  \/ Rename(RenameInputs)
  \/ Insert(ColumnRecords, {NULL})
  \/ Remove(ColumnInputs)
  \/ PrimaryKey

NextCatalog ==
  \/ Create(CatalogTables)
  \/ Drop
  \/ Rename(RenamePairs)
  \/ Insert(ColumnRecords, {NULL})

NextAdd ==
  \/ Create(AddTables)
  \/ Insert(ColumnRecords, {NULL})
  \/ ExecuteCreate
  \/ Add
  \/ Remove(RemoveInputs)

NextFiles ==
  \/ Create(FileTables)
  \/ Insert(FileRecords, {NULL})
  \/ NewDb
  \/ DropDb

SpecTables == Init /\ [][NextTables]_vars
SpecRecords == Init /\ [][NextRecords]_vars
SpecColumns == Init /\ [][NextColumns]_vars
SpecCatalog == Init /\ [][NextCatalog]_vars
SpecAdd == Init /\ [][NextAdd]_vars
SpecFiles == Init /\ [][NextFiles]_vars

TypeOK ==
  /\ last.res \in {R_TRUE, R_FALSE, R_RAISED}
  /\ promotions \in 0..MaxPromotions
  /\ \A i \in 1..Len(db) : db[i].name \in TableNames
  /\ current_db \in FileNames
  /\ DOMAIN disk = FileNames
  /\ db = disk[current_db].db

----------------------------------------------------------------------------
(* Properties.  A property of an operation is stated for every call of the *)
(* operation the model makes, from every state the specification reaches.  *)

FieldNames(flds) == [i \in 1..Len(flds) |-> flds[i].name]

RowVals(tbl) == [i \in 1..Len(tbl.rows) |-> tbl.rows[i].vals]

\* C1: for every valid field list, after create(table, fields) has succeeded
\* with the default auto identity and no pk, fields(table) is 'id' followed
\* by the supplied field names in the order they were supplied.
C1_CreateThenFields ==
  \A a \in CreateInputs :
    (a.auto /\ a.pk = PyNone) =>
      LET r == create(db, a.table, a.flds, a.auto, a.null, a.pk, a.uniques)
      IN  r.res = R_TRUE =>
            fields(r.db, a.table) = << "id" >> \o FieldNames(a.flds)

\* the scenario's table has just been created: id, name, age, email
C1_Witness ==
  /\ last = [op |-> "create", res |-> R_TRUE]
  /\ fields(db, EMPLOYER) = << "id", "name", "age", "email" >>

\* the type the claim gives the primary key: the one declared in fields if
\* it is there (TEXT for a bare name is not a declaration), else INTEGER
C2_KeyType(a) ==
  IF \E i \in 1..Len(a.flds) : ~a.flds[i].bare /\ a.flds[i].name = a.pk
  THEN Upper(a.flds[CHOOSE i \in 1..Len(a.flds) :
                      ~a.flds[i].bare /\ a.flds[i].name = a.pk].type)
  ELSE T("INTEGER")

\* C2: when create is called with pk and succeeds, the table's first column
\* is pk, NOT NULL PRIMARY KEY, of the type declared for it in fields or
\* INTEGER, pk appears once among the columns, and no 'id' is synthesized.
C2_PkFirst ==
  \A a \in CreateInputs :
    a.pk # PyNone =>
      LET r == create(db, a.table, a.flds, a.auto, a.null, a.pk, a.uniques)
          cols == GetTable(r.db, a.table).cols
      IN  r.res = R_TRUE =>
            /\ cols[1] = Column(a.pk, C2_KeyType(a), TRUE, TRUE)
            /\ Cardinality({i \in 1..Len(cols) : cols[i].name = a.pk}) = 1
            /\ "id" \notin SeqToSet(ColNames(cols))

\* the rows of a table without the values of one column
C3_Projected(tbl, column) ==
  [i \in 1..Len(tbl.rows) |->
     RemoveAt(tbl.rows[i].vals, ColIdx(tbl.cols, column))]

\* C3: after remove(table, column) has returned success on a table of more
\* than one column, the table still exists, its columns are the original
\* ones without column in the original order, and its rows are the original
\* rows projected onto the remaining columns.
C3_RemoveKeepsTheRest ==
  \A c \in ColumnInputs :
    (/\ HasTable(db, EMPLOYER)
     /\ Len(GetTable(db, EMPLOYER).cols) > 1
     /\ HasCol(GetTable(db, EMPLOYER).cols, c)) =>
      LET r == remove(db, EMPLOYER, c)
      IN  r.res = R_TRUE =>
            /\ HasTable(r.db, EMPLOYER)
            /\ fields(r.db, EMPLOYER) = ListRemove(fields(db, EMPLOYER), c)
            /\ RowVals(GetTable(r.db, EMPLOYER))
                 = C3_Projected(GetTable(db, EMPLOYER), c)

\* the copy step of primary_key is reached and fails
C4_CopyFails(p) ==
  /\ fields(db, EMPLOYER) # << PyNone >>
  /\ PkMade(db, EMPLOYER, p[1], p[2]).res = R_TRUE
  /\ PkColumns(db, EMPLOYER, p[1]) # << >>
  /\ PkCopied(db, EMPLOYER, p[1], p[2]).res = R_FALSE

\* C4: if the copy step of primary_key fails, primary_key returns failure
\* and afterwards the table is there under its own name with the columns
\* and rows it had, and neither the new table nor old_<table> remains.
C4_CopyFailureRestores ==
  \A p \in PrimaryKeyInputs :
    C4_CopyFails(p) =>
      LET r == primary_key(db, EMPLOYER, p[1], p[2])
      IN  /\ r.res = R_FALSE
          /\ HasTable(r.db, EMPLOYER)
          /\ GetTable(r.db, EMPLOYER) = GetTable(db, EMPLOYER)
          /\ ~HasTable(r.db, OldName(EMPLOYER))
          /\ Len(r.db) = Len(db)

\* primary_key has just failed on a table that is there, with two rows of
\* the same name, and no old_<table> is left
C4_Witness ==
  /\ last = [op |-> "primary_key", res |-> R_FALSE]
  /\ HasTable(db, EMPLOYER)
  /\ ~HasTable(db, OldName(EMPLOYER))
  /\ HasCol(GetTable(db, EMPLOYER).cols, "name")
  /\ LET tbl == GetTable(db, EMPLOYER)
         n == ColIdx(tbl.cols, "name")
     IN  /\ Len(tbl.rows) = 2
         /\ tbl.rows[1].vals[n] = tbl.rows[2].vals[n]
  /\ \E p \in PrimaryKeyInputs : C4_CopyFails(p)

\* a row with the value of one column moved to the front
C5_KeyFirst(tbl, column) ==
  { << tbl.rows[i].vals[ColIdx(tbl.cols, column)] >>
      \o RemoveAt(tbl.rows[i].vals, ColIdx(tbl.cols, column)) :
    i \in 1..Len(tbl.rows) }

\* C5: after primary_key(table, column) has succeeded on a table where
\* column exists and holds row data, the table has as many rows as before,
\* each row's key is the value the row had in column, and the row's other
\* values are unchanged.
C5_PromotionKeepsValues ==
  \A p \in PrimaryKeyInputs :
    (/\ HasTable(db, EMPLOYER)
     /\ HasCol(GetTable(db, EMPLOYER).cols, p[1])
     /\ GetTable(db, EMPLOYER).rows # << >>) =>
      LET r == primary_key(db, EMPLOYER, p[1], p[2])
      IN  r.res = R_TRUE =>
            /\ Len(GetTable(r.db, EMPLOYER).rows)
                 = Len(GetTable(db, EMPLOYER).rows)
            /\ { GetTable(r.db, EMPLOYER).rows[i].vals :
                   i \in 1..Len(GetTable(r.db, EMPLOYER).rows) }
                 = C5_KeyFirst(GetTable(db, EMPLOYER), p[1])

\* the scenario's table: id, name, age and an email that may be empty
C6_Scenario ==
  /\ HasTable(db, EMPLOYER)
  /\ fields(db, EMPLOYER) = << "id", "name", "age", "email" >>
  /\ IsRowidAlias(GetTable(db, EMPLOYER).cols[1])
  /\ ~GetTable(db, EMPLOYER).cols[4].notnull
  /\ GetTable(db, EMPLOYER).uniq = << >>

\* C6: insert('employer', ['Ann', 30]) with empty=None on the table
\* (id, name, age, email) adds one row: an id the engine fills in,
\* name = 'Ann', age = 30 and email = None; the rows before it stay.
C6_InsertAlignsPastId ==
  C6_Scenario =>
    LET r == insert(db, EMPLOYER, << TextV("Ann"), IntV(30) >>, NULL)
        old == GetTable(db, EMPLOYER).rows
        new == GetTable(r.db, EMPLOYER).rows
    IN  /\ r.res = R_TRUE
        /\ Len(new) = Len(old) + 1
        /\ \A i \in 1..Len(old) : \E j \in 1..Len(new) : new[j] = old[i]
        /\ \E j \in 1..Len(new) :
             /\ \A i \in 1..Len(old) : new[j].rowid # old[i].rowid
             /\ new[j].vals
                  = << IntV(new[j].rowid), TextV("Ann"), IntV(30), NULL >>

\* the rows of the table that the filter age > 65 does not select
C7_Kept(tbl) ==
  SelectSeq(tbl.rows, LAMBDA row : ~PredHolds(tbl, row, AgeOver65))

\* C7: delete(table, 'age > 65') returns without raising and deletes the
\* rows with age > 65 and no others, and delete(table, 'WHERE age > 65')
\* from the same state leaves the same rows.
C7_WhereKeywordOptional ==
  (HasTable(db, EMPLOYER) /\ HasCol(GetTable(db, EMPLOYER).cols, "age")) =>
    LET bare == delete_record(db, EMPLOYER, << AgeOver65 >>)
        keyed == delete_record(db, EMPLOYER,
                               << Kw("where", "U"), Ws, AgeOver65 >>)
    IN  /\ bare.res # R_RAISED
        /\ GetTable(bare.db, EMPLOYER).rows = C7_Kept(GetTable(db, EMPLOYER))
        /\ GetTable(keyed.db, EMPLOYER).rows = GetTable(bare.db, EMPLOYER).rows

\* C8: insert and execute never raise: when the engine rejects the
\* statement, a constraint violation included, the call returns failure
\* and the table's rows are unchanged.
C8_NoEngineFailureRaised ==
  \A rec \in Records, e \in Empties :
    HasTable(db, EMPLOYER) =>
      LET i == insert(db, EMPLOYER, rec, e)
          x == execute(db, InsertValuesStmt(EMPLOYER, Len(rec), rec))
      IN  /\ i.res \in {R_TRUE, R_FALSE}
          /\ x.res \in {R_TRUE, R_FALSE}
          /\ i.res = R_FALSE => i.db = db
          /\ x.res = R_FALSE => x.db = db

\* is the type, compared without regard to case, one of the listed ones?
C9_Listed(ty) ==
  Upper(ty) \in { Upper(t) : t \in SeqToSet(GENERAL) \cup SeqToSet(AffinityValues) }

\* C9: create accepts a (name, type) field exactly when the type, compared
\* case-insensitively, is a general type or one of the listed synonyms, the
\* parenthesised ones included; any other type makes create fail and
\* create no table.
C9_TypeAcceptedIffListed ==
  \A ty \in TypeInputs :
    ~InTABLES(db, EMPLOYER) =>
      LET r == create(db, EMPLOYER, << Pair("name", ty), Bare("email") >>,
                      TRUE, << >>, PyNone, << >>)
      IN  /\ C9_Listed(ty) => (r.res = R_TRUE /\ HasTable(r.db, EMPLOYER))
          /\ ~C9_Listed(ty) => (r.res = R_FALSE /\ r.db = db)

\* C10: create on a table name that already exists returns failure and
\* leaves that table and every other table unchanged, whatever fields, pk,
\* null and uniques are passed.
C10_CreateExistingFails ==
  \A a \in CreateInputs :
    HasTable(db, a.table) =>
      create(db, a.table, a.flds, a.auto, a.null, a.pk, a.uniques)
        = Result(R_FALSE, db)

\* create has just failed while both tables were there, one with rows: the
\* name it was called with existed
C10_Witness ==
  /\ last = [op |-> "create", res |-> R_FALSE]
  /\ HasTable(db, EMPLOYER)
  /\ HasTable(db, OldName(EMPLOYER))
  /\ GetTable(db, EMPLOYER).rows # << >>

\* the rename of primary_key succeeds and a later step of the rebuild, the
\* new table's statement or the copy, fails
C13_RebuildFails(p) ==
  /\ HasTable(db, EMPLOYER)
  /\ ~InTABLES(db, OldName(EMPLOYER))
  /\ IF PkMade(db, EMPLOYER, p[1], p[2]).res = R_FALSE THEN TRUE
     ELSE PkCopied(db, EMPLOYER, p[1], p[2]).res = R_FALSE

\* C13: if a step of primary_key after the rename fails, the creation of
\* the new table included, primary_key returns failure and the table is
\* back in its state before the call: under its own name, with its columns
\* and rows, and with no old_<table> left behind.
C13_RebuildFailureRestores ==
  \A p \in PrimaryKeyInputs :
    C13_RebuildFails(p) =>
      LET r == primary_key(db, EMPLOYER, p[1], p[2])
      IN  /\ r.res = R_FALSE
          /\ HasTable(r.db, EMPLOYER)
          /\ GetTable(r.db, EMPLOYER) = GetTable(db, EMPLOYER)
          /\ ~HasTable(r.db, OldName(EMPLOYER))

\* every name in uniques and null is the name of a supplied field, bare or
\* paired with a type
C14_Named(a) ==
  \A n \in SeqToSet(a.uniques \o a.null) :
    \E i \in 1..Len(a.flds) : a.flds[i].name = n

\* nothing else stands in the way of the create: no pk, listed plain types
C14_Plain(a) ==
  /\ a.pk = PyNone
  /\ \A i \in 1..Len(a.flds) :
       a.flds[i].bare \/ Upper(a.flds[i].type) \in SeqToSet(GENERAL)

\* C14: create fails on the uniques/null check exactly when some name in
\* uniques or null is not the name of a supplied field, whether the field
\* was supplied bare or as a (name, type) pair; when it fails no table is
\* created.
C14_ConstraintNamesChecked ==
  \A a \in CreateInputs :
    (~InTABLES(db, a.table) /\ C14_Plain(a)) =>
      LET r == create(db, a.table, a.flds, a.auto, a.null, a.pk, a.uniques)
      IN  IF C14_Named(a)
          THEN r.res = R_TRUE /\ HasTable(r.db, a.table)
          ELSE r = Result(R_FALSE, db)

\* C15: rename(old, new) returns failure and changes nothing when old is
\* absent or new is already present; otherwise, after it succeeds, old is
\* not in TABLES, new is in TABLES, and new has the columns and rows old had.
C15_RenameMovesTheTable ==
  \A old \in NameInputs, new \in NameInputs :
    LET r == rename(db, old, new)
    IN  IF ~HasTable(db, old) \/ InTABLES(db, new)
        THEN r = Result(R_FALSE, db)
        ELSE /\ r.res = R_TRUE
             /\ ~InTABLES(r.db, old)
             /\ InTABLES(r.db, new)
             /\ GetTable(r.db, new).cols = GetTable(db, old).cols
             /\ GetTable(r.db, new).rows = GetTable(db, old).rows

\* a table with rows has just been renamed from employer to old_employer
C15_Witness ==
  /\ last = [op |-> "rename", res |-> R_TRUE]
  /\ ~InTABLES(db, EMPLOYER)
  /\ HasTable(db, OldName(EMPLOYER))
  /\ Len(GetTable(db, OldName(EMPLOYER)).cols) = 4
  /\ GetTable(db, OldName(EMPLOYER)).rows # << >>

\* the tables of a database other than one, in catalog order
C16_Others(d, table) == SelectSeq(d, LAMBDA t : t.name # table)

\* C16: after drop(table) has succeeded on a table, TABLES no longer lists
\* it and all other tables are unchanged; drop on a table that does not
\* exist returns failure and changes nothing.
C16_DropRemovesOnlyTheTable ==
  \A t \in NameInputs :
    LET r == drop(db, t)
    IN  IF HasTable(db, t)
        THEN r.res = R_TRUE =>
               /\ ~InTABLES(r.db, t)
               /\ C16_Others(r.db, t) = C16_Others(db, t)
        ELSE r = Result(R_FALSE, db)

\* C17: after primary_key(table, column) has succeeded, the table's columns
\* are the promoted column followed by the other original columns in their
\* order, the promoted one not repeated, every column but the key is
\* NOT NULL, and old_<table> no longer exists.
C17_PromotedColumnFirst ==
  \A p \in PrimaryKeyInputs :
    HasTable(db, EMPLOYER) =>
      LET r == primary_key(db, EMPLOYER, p[1], p[2])
          before == ColNames(GetTable(db, EMPLOYER).cols)
          cols == GetTable(r.db, EMPLOYER).cols
      IN  r.res = R_TRUE =>
            /\ HasTable(r.db, EMPLOYER)
            /\ ColNames(cols)
                 = << p[1] >> \o SelectSeq(before, LAMBDA n : n # p[1])
            /\ cols[1].pk
            /\ \A i \in 2..Len(cols) : cols[i].notnull /\ ~cols[i].pk
            /\ ~InTABLES(r.db, OldName(EMPLOYER))

\* a column has just been promoted in a table that keeps its rows
C17_Witness ==
  /\ last = [op |-> "primary_key", res |-> R_TRUE]
  /\ HasTable(db, EMPLOYER)
  /\ GetTable(db, EMPLOYER).cols[1].pk
  /\ Len(GetTable(db, EMPLOYER).cols) >= 3
  /\ GetTable(db, EMPLOYER).rows # << >>
  /\ ~InTABLES(db, OldName(EMPLOYER))

\* the names of the tables that exist
C18_TableNames == { db[i].name : i \in 1..Len(db) }

\* C18: in every reachable state TABLES lists the names of the tables that
\* exist, each once, and no other catalog object such as an automatic
\* index; schema has exactly those names as keys.
C18_ViewsListTablesOnly ==
  /\ SeqToSet(TABLES(db)) = C18_TableNames
  /\ Len(TABLES(db)) = Cardinality(C18_TableNames)
  /\ { schema(db)[i].key : i \in 1..Len(schema(db)) } = C18_TableNames

\* C19: remove(table, column) on a table whose only column is column leaves
\* the database as drop(table) leaves it: the table is absent from TABLES
\* and all other tables are unchanged.
C19_RemoveLastIsDrop ==
  \A c \in ColumnInputs :
    fields(db, EMPLOYER) = << c >> =>
      LET r == remove(db, EMPLOYER, c)
          q == drop(db, EMPLOYER)
      IN  /\ r.res = R_TRUE
          /\ q.res = R_TRUE
          /\ r.db = q.db
          /\ ~InTABLES(r.db, EMPLOYER)
          /\ C16_Others(r.db, EMPLOYER) = C16_Others(db, EMPLOYER)

\* the table has one column and a row, another table stands beside it, and
\* removing the column takes the table away
C19_Witness ==
  /\ fields(db, EMPLOYER) = << "name" >>
  /\ GetTable(db, EMPLOYER).rows # << >>
  /\ HasTable(db, OldName(EMPLOYER))
  /\ remove(db, EMPLOYER, "name").res = R_TRUE
  /\ ~InTABLES(remove(db, EMPLOYER, "name").db, EMPLOYER)

\* C11: for a table with at least one column, add(table, C) followed by
\* remove(table, C) returns the table to its original columns, same names
\* in the same order, and to its original rows.
C11_AddThenRemove ==
  \A a \in AddInputs :
    (HasTable(db, EMPLOYER) /\ ~HasCol(GetTable(db, EMPLOYER).cols, a.column)) =>
      LET added == add(db, EMPLOYER, a.column, a.unique, a.null, a.ftype)
          r == remove(added.db, EMPLOYER, a.column)
      IN  /\ r.res # R_RAISED
          /\ HasTable(r.db, EMPLOYER)
          /\ fields(r.db, EMPLOYER) = fields(db, EMPLOYER)
          /\ RowVals(GetTable(r.db, EMPLOYER)) = RowVals(GetTable(db, EMPLOYER))

\* C20: add(table, column) returns failure and leaves the table unchanged
\* when the table is absent or the column is already there; otherwise it
\* succeeds, fields(table) is the previous list with column appended, and
\* the other columns and the rows' values in them are unchanged.
C20_AddAppendsColumn ==
  \A a \in AddInputs :
    LET r == add(db, EMPLOYER, a.column, a.unique, a.null, a.ftype)
    IN  IF ~HasTable(db, EMPLOYER) \/ HasCol(GetTable(db, EMPLOYER).cols, a.column)
        THEN r = Result(R_FALSE, db)
        ELSE LET old == GetTable(db, EMPLOYER)
                 new == GetTable(r.db, EMPLOYER)
             IN  /\ r.res = R_TRUE
                 /\ fields(r.db, EMPLOYER) = Append(fields(db, EMPLOYER), a.column)
                 /\ SubSeq(new.cols, 1, Len(old.cols)) = old.cols
                 /\ Len(new.rows) = Len(old.rows)
                 /\ \A i \in 1..Len(old.rows) :
                      SubSeq(new.rows[i].vals, 1, Len(old.cols)) = old.rows[i].vals

\* the read of remove: the remaining columns of the table
C12_Read(c) ==
  query(db, SelectStmt(CutLast(SelectCodes(Remaining(db, EMPLOYER, c))),
                       EMPLOYER))

\* C12: in remove the destructive steps run only after the read of the
\* remaining columns has succeeded: if the read fails, the table is not
\* dropped and its columns and rows are unchanged.
C12_NoDropAfterFailedRead ==
  \A c \in RemoveInputs :
    (/\ HasTable(db, EMPLOYER)
     /\ HasCol(GetTable(db, EMPLOYER).cols, c)
     /\ Len(GetTable(db, EMPLOYER).cols) > 1
     /\ C12_Read(c).res = R_FALSE) =>
      LET r == remove(db, EMPLOYER, c)
      IN  /\ HasTable(r.db, EMPLOYER)
          /\ GetTable(r.db, EMPLOYER) = GetTable(db, EMPLOYER)

\* C21: create returns failure, without raising and without creating a
\* table, for every malformed field descriptor: an entry that is neither a
\* string nor a sequence, a pair whose name or type is not a string (the
\* falsy None, 0 and () included), or a sequence of fewer than two elements.
C21_MalformedFieldFails ==
  \A a \in MalformedInputs :
    ~InTABLES(db, a.table) =>
      create(db, a.table, a.flds, a.auto, a.null, a.pk, a.uniques)
        = Result(R_FALSE, db)

\* C26: primary_key called while a table named old_<table> exists returns
\* failure and leaves the table and the old_<table> that was there as they
\* were, columns and rows: the rebuild does not overwrite, drop or rename it.
C26_TemporaryNameTaken ==
  \A p \in PrimaryKeyInputs :
    (HasTable(db, EMPLOYER) /\ HasTable(db, OldName(EMPLOYER))) =>
      primary_key(db, EMPLOYER, p[1], p[2]) = Result(R_FALSE, db)

\* primary_key has failed on a table with rows, next to an old_<table>
C26_Witness ==
  /\ last = [op |-> "primary_key", res |-> R_FALSE]
  /\ HasTable(db, EMPLOYER)
  /\ HasTable(db, OldName(EMPLOYER))
  /\ GetTable(db, EMPLOYER).rows # << >>

\* the database with every row of the table deleted
C24_Emptied(d, table) ==
  [i \in 1..Len(d) |->
     IF d[i].name = table THEN [d[i] EXCEPT !.rows = << >>] ELSE d[i]]

\* C24: delete_record without a filter deletes every row of the table and
\* leaves the table, its columns and every other table as they were; for a
\* name that is no table it returns failure and changes nothing.
C24_DeleteAllRows ==
  \A t \in NameInputs :
    delete_record(db, t, << >>)
      = IF HasTable(db, t) THEN Result(R_TRUE, C24_Emptied(db, t))
        ELSE Result(R_FALSE, db)

\* every row of a table has been deleted, next to another table
C24_Witness ==
  /\ last = [op |-> "delete_record", res |-> R_TRUE]
  /\ HasTable(db, EMPLOYER)
  /\ GetTable(db, EMPLOYER).rows = << >>
  /\ HasTable(db, OldName(EMPLOYER))

\* C25: fields on a name that is no table returns the one-element failure
\* marker (None,), whatever operations came before: after the table was
\* never made, was dropped, or was renamed away.
C25_FieldsOfNoTable ==
  \A t \in NameInputs :
    ~HasTable(db, t) => fields(db, t) = << PyNone >>

\* the rows of the table, in table order
C23_Rows(t) ==
  [i \in 1..Len(GetTable(db, t).rows) |-> GetTable(db, t).rows[i].vals]

\* the first min(n, row count) rows of the table
C23_First(t, n) ==
  SubSeq(C23_Rows(t), 1,
         IF n < Len(C23_Rows(t)) THEN n ELSE Len(C23_Rows(t)))

\* what the claim says fetch returns on a table that exists
C23_OnTable(t, g, r) ==
  CASE g = TextV("*") -> r = Fetched(C23_Rows(t))
    [] g = TextV("1") ->
         /\ r.res = R_TRUE
         /\ Len(r.rows) = 1
         /\ C23_Rows(t) # << >> => r.rows[1] = C23_Rows(t)[1]
    [] HasInt(g) /\ Conv(g) >= 1 -> r = Fetched(C23_First(t, Conv(g)))
    [] OTHER -> TRUE

\* C23: fetch on a table returns all rows for '*', a one-element sequence
\* holding the first row for '1', and the first min(N, row count) rows for
\* a positive N given as a string or a number; for a name that is no table
\* it returns failure.
C23_FetchModes ==
  \A t \in NameInputs, g \in FetchInputs :
    IF HasTable(db, t) THEN C23_OnTable(t, g, fetch(db, t, g))
    ELSE fetch(db, t, g) = NotFetched(R_FALSE)

\* what is asked of the result r of new_db(name)
C22_After(name, r) ==
  /\ \A f \in FileNames \ {name} : r.disk[f] = disk[f]
  /\ IF disk[name].exists
     THEN /\ r.res = R_FALSE
          /\ r.current = current_db
          /\ r.disk[name] = disk[name]
     ELSE /\ r.res = R_TRUE
          /\ r.current = name
          /\ r.disk[name].exists
          /\ TABLES(r.disk[name].db) = << >>

\* C22: new_db(name) returns failure and leaves current_db and the file as
\* they were when there is a file of that name; otherwise it makes an empty
\* database of that name, with no tables, binds current_db to it and
\* returns success; no other file changes.
C22_NewDb ==
  \A name \in FileNames : C22_After(name, new_db(disk, current_db, name))

\* new_db has made a second, empty database and bound it, next to the
\* first file and its tables
C22_Witness ==
  /\ last = [op |-> "new_db", res |-> R_TRUE]
  /\ current_db # FirstFile
  /\ db = EmptyDB
  /\ disk[current_db] = File(EmptyDB)
  /\ disk[FirstFile].exists
  /\ disk[FirstFile].db # EmptyDB

====
